---- MODULE Spec2Model ----
(***************************************************************************)
(* A model of shiftopt (src/shiftopt): the time index, the demand          *)
(* aggregation, the priority weight resolution, the shift coverage         *)
(* precomputation and build_and_solve's mixed-integer program, with the    *)
(* external MILP solver as a nondeterministic choice among the valuations  *)
(* that satisfy the constraints added to the problem; and of the script of *)
(* the HTML report (src/shiftopt/viz.py) that keeps the zoom of the        *)
(* figures in step.                                                        *)
(*                                                                         *)
(* Conventions.  A date is its proleptic ordinal (date.toordinal()); a     *)
(* "HH:MM" string is the pair <<hh, mm>> that split(":") and int() give; a *)
(* weight is carried in hundredths (1.0 is 100, 0.05 is 5), which keeps    *)
(* the order of the floats the code compares; a Python dict is a function  *)
(* whose DOMAIN is the dict's key set; ids are strings.                    *)
(***************************************************************************)
EXTENDS Integers, Sequences, FiniteSets, TLC

VARIABLES
    pc,         \* position in build_and_solve, or "call"/"returned" for one function
    data,       \* the input payload (data: Dict[str, Any])
    idx,        \* index of the next forecast row / priority window to process
    demand,     \* demand[(d, b, sg)]
    sg_stream,  \* sg_stream[sg] = (direction, channel)
    weights,    \* weights[(d, b, stream)], in hundredths
    cov,        \* set of (tid, day_off, b_in): the keys of the cov dict
    allowed,    \* allowed[(eg_id, tid)]
    prob,       \* what has been added to the LpProblem: variable and constraint families
    sol,        \* the values the solver left in the variables
    status,     \* the solver's status
    result,     \* the dict build_and_solve returns
    err,        \* the exception that ended the run, or "none"
    fin,        \* argument of the single function a function-level specification applies
    fout,       \* its result
    globalSyncing,  \* the flag of the report's script (viz.py:293)
    syncing,        \* syncing[id]: the __syncing flag of figure id
    relayouts,      \* the Plotly.relayout calls syncFrom has made, in order
    log,            \* the plotly_relayout events handled by syncFrom, in order
    resolved        \* the calls of syncFrom whose Promise.all callback has run

pageVars == <<globalSyncing, syncing, relayouts, log, resolved>>

vars == <<pc, data, idx, demand, sg_stream, weights, cov, allowed, prob, sol,
          status, result, err, fin, fout, pageVars>>

\* the report is not open
IdlePage ==
    /\ globalSyncing = FALSE /\ syncing = <<>> /\ relayouts = <<>> /\ log = <<>>
    /\ resolved = {}

None == "none"

----------------------------------------------------------------------------
(* Python helpers *)

\* dict.get(k, default)
Get(f, k, default) == IF k \in DOMAIN f THEN f[k] ELSE default

\* d[k] = v
Put(f, k, v) == [x \in (DOMAIN f) \cup {k} |-> IF x = k THEN v ELSE f[x]]

Max(a, b) == IF a >= b THEN a ELSE b

\* min of a non-empty set of numbers
LeastOf(S) == CHOOSE x \in S : \A y \in S : x <= y

Min(a, b) == IF a <= b THEN a ELSE b

RECURSIVE SumF(_, _)
\* sum of f[x] over x in S
SumF(f, S) == IF S = {} THEN 0
              ELSE LET x == CHOOSE y \in S : TRUE
                   IN  f[x] + SumF(f, S \ {x})

SeqToSet(s) == {s[i] : i \in DOMAIN s}

RECURSIVE Perms(_)
\* every ordering of the elements of the set S
Perms(S) == IF S = {} THEN {<<>>}
            ELSE UNION {{<<x>> \o p : p \in Perms(S \ {x})} : x \in S}

----------------------------------------------------------------------------
(* time_index.py *)

\* TimeIndex.buckets_per_day: int(24 * 60 / bucket_minutes)
buckets_per_day(ti) == (24 * 60) \div ti.bucket_minutes

\* A mutant of day_bucket_from_dt: the horizon test is off by one at its end.
day_bucket_from_dt_LateHorizon(ti, dt) ==
    LET day_idx == dt.date - ti.start_date
        minute_of_day == dt.hour * 60 + dt.minute
        bucket_idx == minute_of_day \div ti.bucket_minutes
    IN  IF day_idx < 0 \/ day_idx > ti.days
        THEN [err |-> "out of horizon"]
        ELSE IF minute_of_day % ti.bucket_minutes # 0
        THEN [err |-> "not aligned"]
        ELSE IF bucket_idx < 0 \/ bucket_idx >= buckets_per_day(ti)
        THEN [err |-> "bucket_idx out of range"]
        ELSE [err |-> None, day |-> day_idx, bucket |-> bucket_idx]

\* TimeIndex.day_bucket_from_dt: the slot of a datetime, or the ValueError raised
\* (named by its message).  dt.second is not read.
day_bucket_from_dt(ti, dt) ==
    LET day_idx == dt.date - ti.start_date
        minute_of_day == dt.hour * 60 + dt.minute
        bucket_idx == minute_of_day \div ti.bucket_minutes
    IN  IF day_idx < 0 \/ day_idx >= ti.days
        THEN [err |-> "out of horizon"]
        ELSE IF minute_of_day % ti.bucket_minutes # 0
        THEN [err |-> "not aligned"]
        ELSE IF bucket_idx < 0 \/ bucket_idx >= buckets_per_day(ti)
        THEN [err |-> "bucket_idx out of range"]
        ELSE [err |-> None, day |-> day_idx, bucket |-> bucket_idx]

\* TimeIndex.iter_day_buckets, as the set of slots it yields
iter_day_buckets(ti) == (0..(ti.days - 1)) \X (0..(buckets_per_day(ti) - 1))

\* date.weekday(): Monday is 0; ordinal 1 (0001-01-01) is a Monday
weekday(ordinal) == (ordinal + 6) % 7

----------------------------------------------------------------------------
(* model.py: helpers *)

\* _hhmm_to_bucket
hhmm_to_bucket(start_hhmm, bucket_minutes) ==
    (start_hhmm[1] * 60 + start_hhmm[2]) \div bucket_minutes

\* the (day_off, b_in) appended for relative offset off
Span(start, off, bpd) == <<(start + off) \div bpd, (start + off) % bpd>>

RECURSIVE PatternSpans(_, _, _, _)
\* the loop over enumerate(pattern) from 0-based offset off on
PatternSpans(pattern, off, start, bpd) ==
    IF off >= Len(pattern) THEN <<>>
    ELSE IF pattern[off + 1] # 1
    THEN PatternSpans(pattern, off + 1, start, bpd)
    ELSE <<Span(start, off, bpd)>> \o PatternSpans(pattern, off + 1, start, bpd)

\* A mutant of dur_buckets: a partial last bucket is rounded up instead of dropped.
dur_buckets_Ceil(t, bucket_minutes) ==
    (t.duration_minutes + bucket_minutes - 1) \div bucket_minutes

\* dur_buckets = dur_min // bucket_minutes
dur_buckets(t, bucket_minutes) == t.duration_minutes \div bucket_minutes

\* _template_covers_bucket: the list of (day_offset, bucket_idx_in_day)
template_covers_bucket(t, bucket_minutes, bpd) ==
    LET start == hhmm_to_bucket(t.start_time_local, bucket_minutes)
    IN  IF "bucket_work_pattern" \in DOMAIN t
        THEN PatternSpans(t.bucket_work_pattern, 0, start, bpd)
        ELSE LET n == dur_buckets(t, bucket_minutes)
             IN  [i \in 1..Max(n, 0) |-> Span(start, i - 1, bpd)]

\* the keys the cov dict gets for the templates ts (a function id -> template)
CovOf(ts, bucket_minutes, bpd) ==
    UNION {{<<tid, sp[1], sp[2]>> :
                sp \in SeqToSet(template_covers_bucket(ts[tid], bucket_minutes, bpd))} :
           tid \in DOMAIN ts}

----------------------------------------------------------------------------
(* model.py: priority weights *)

Baseline == 100

\* rank_default.get(rank, 0.05)
rank_default(rank) ==
    CASE rank = 1 -> 10000
      [] rank = 2 -> 1000
      [] rank = 3 -> 100
      [] rank = 4 -> 30
      [] rank = 5 -> 10
      [] OTHER -> 5

\* float(p.get("understaff_weight", rank_default.get(rank, 0.05)))
EntryWeight(p) ==
    IF "understaff_weight" \in DOMAIN p THEN p.understaff_weight ELSE rank_default(p.rank)

DowNames == <<"mon", "tue", "wed", "thu", "fri", "sat", "sun">>

\* day_dow[day_idx]
day_dow(ti, day_idx) == DowNames[weekday(ti.start_date + day_idx) + 1]

\* A mutant of Merge: the later entry overwrites the weight.
Merge_Overwrite(cur, wgt) == wgt

\* weights[key] = max(weights.get(key, 1.0), wgt)
Merge(cur, wgt) == Max(cur, wgt)

\* A mutant of WindowHits: the day filter is ignored.
WindowHits_EveryDay(ti, w, day_idx, b) ==
    /\ day_idx \in 0..(ti.days - 1)
    /\ hhmm_to_bucket(w.start_time_local, ti.bucket_minutes) <= b
    /\ b < Min(hhmm_to_bucket(w.end_time_local, ti.bucket_minutes), buckets_per_day(ti))

\* whether window w reaches slot (day_idx, b): the day filter and range(start_b, min(end_b, bpd))
WindowHits(ti, w, day_idx, b) ==
    LET start_b == hhmm_to_bucket(w.start_time_local, ti.bucket_minutes)
        end_b == hhmm_to_bucket(w.end_time_local, ti.bucket_minutes)
    IN  /\ day_idx \in 0..(ti.days - 1)
        /\ w.applies_to_days = {} \/ day_dow(ti, day_idx) \in w.applies_to_days
        /\ start_b <= b
        /\ b < Min(end_b, buckets_per_day(ti))

RECURSIVE FoldEntries(_, _, _, _)
\* the loop over w["priorities"] from position i on, for one (slot, stream) key
FoldEntries(cur, ps, i, stream) ==
    IF i > Len(ps) THEN cur
    ELSE FoldEntries(
            IF <<ps[i].direction, ps[i].channel>> = stream
            THEN Merge(cur, EntryWeight(ps[i])) ELSE cur,
            ps, i + 1, stream)

\* the streams one window names
WindowStreams(w) == {<<w.priorities[i].direction, w.priorities[i].channel>> : i \in DOMAIN w.priorities}

\* one iteration of the loop over priority_rules: the weights dict after window w
ApplyWindow(ti, wts, w) ==
    LET hit == {k \in iter_day_buckets(ti) \X WindowStreams(w) :
                    WindowHits(ti, w, k[1][1], k[1][2])}
        keys == {<<k[1][1], k[1][2], k[2]>> : k \in hit}
    IN  [k \in (DOMAIN wts) \cup keys |->
            IF k \in keys
            THEN FoldEntries(Get(wts, k, Baseline), w.priorities, 1, k[3])
            ELSE wts[k]]

\* the weights dict before any window: 1.0 for every slot and known stream
InitialWeights(ti, streams) ==
    [k \in {<<s[1][1], s[1][2], s[2]>> : s \in iter_day_buckets(ti) \X streams} |-> Baseline]

RECURSIVE ApplyWindows(_, _, _, _)
\* the loop over priority_rules from position i on
ApplyWindows(ti, wts, rules, i) ==
    IF i > Len(rules) THEN wts
    ELSE ApplyWindows(ti, ApplyWindow(ti, wts, rules[i]), rules, i + 1)

\* the streams named by the priority rules
RuleStreams(rules) == UNION {WindowStreams(rules[i]) : i \in DOMAIN rules}

\* weights after the resolution, for known streams and rules
ResolveWeights(ti, streams, rules) ==
    ApplyWindows(ti, InitialWeights(ti, streams \cup RuleStreams(rules)), rules, 1)

----------------------------------------------------------------------------
(* model.py: build_and_solve, the input payload in data *)

Range(f) == {f[x] : x \in DOMAIN f}

\* ti = TimeIndex(start_date, days, bucket_minutes)
TimeIdx == data.time

Employees == DOMAIN data.employees

\* e["skill_group_ids"]
skills(e) == data.employees[e].skill_group_ids

\* key = (d, b, sg) of a forecast row whose timestamp resolves (lines 71-77)
KeyOf(ti, r) ==
    LET res == day_bucket_from_dt(ti, r.timestamp_local)
    IN  <<res.day, res.bucket, r.skill_group_id>>

\* A mutant of AddRow: a later row overwrites the count of its key.
AddRow_Overwrite(dem, key, agents) == Put(dem, key, agents)

\* demand[key] = demand.get(key, 0) + int(r["agents"]) (line 78)
AddRow(dem, key, agents) == Put(dem, key, Get(dem, key, 0) + agents)

RECURSIVE AggregateFrom(_, _, _, _)
\* The loop of lines 69-78 over rows whose timestamps resolve and whose streams
\* agree, from row i on: the demand dict it leaves.
AggregateFrom(ti, fc, i, dem) ==
    IF i > Len(fc) THEN dem
    ELSE LET res == day_bucket_from_dt(ti, fc[i].timestamp_local)
         IN  AggregateFrom(ti, fc, i + 1,
                           AddRow(dem, <<res.day, res.bucket, fc[i].skill_group_id>>,
                                  fc[i].agents))

\* A mutant of stream_conflict: a later stream silently replaces the known one.
stream_conflict_Never(known, sg, stream) == FALSE

\* sg in sg_stream and sg_stream[sg] != stream (line 74)
stream_conflict(known, sg, stream) == sg \in DOMAIN known /\ known[sg] # stream

\* One forecast row (lines 69-78): its slot or the ValueError of the time index,
\* the stream check, then the additive update of demand.  timestamp_local is
\* carried as the datetime parse_forecast_timestamp builds from it.
AggregateRow ==
    /\ pc = "aggregate"
    /\ idx <= Len(data.forecast)
    /\ LET r == data.forecast[idx]
           res == day_bucket_from_dt(TimeIdx, r.timestamp_local)
           sg == r.skill_group_id
           stream == <<r.direction, r.channel>>
       IN  IF res.err # None
           THEN /\ err' = res.err
                /\ pc' = "failed"
                /\ UNCHANGED <<idx, demand, sg_stream>>
           ELSE IF stream_conflict(sg_stream, sg, stream)
           THEN /\ err' = "multiple streams"
                /\ pc' = "failed"
                /\ UNCHANGED <<idx, demand, sg_stream>>
           ELSE /\ sg_stream' = Put(sg_stream, sg, stream)
                /\ demand' = AddRow(demand, <<res.day, res.bucket, sg>>, r.agents)
                /\ idx' = idx + 1
                /\ UNCHANGED <<pc, err>>
    /\ UNCHANGED <<data, weights, cov, allowed, prob, sol, status, result, fin, fout, pageVars>>

\* Lines 80-120, after the last forecast row: the known streams and the weights.
ResolveWeightsStep ==
    /\ pc = "aggregate"
    /\ idx > Len(data.forecast)
    /\ weights' = ResolveWeights(TimeIdx, Range(sg_stream) \cup data.operating_hours,
                                 data.priority_rules)
    /\ pc' = "precompute"
    /\ UNCHANGED <<data, idx, demand, sg_stream, cov, allowed, prob, sol, status,
                   result, err, fin, fout, pageVars>>

\* A mutant of AllowedOf: only the daily maximum is tested.
AllowedOf_MaxOnly(egs, ts) ==
    [k \in (DOMAIN egs) \X (DOMAIN ts) |->
        ts[k[2]].duration_minutes <= 60 * egs[k[1]].hours_per_day.max]

\* allowed[(eg_id, tid)]: dur_hr within [min_day - 1e-9, max_day + 1e-9]; with whole
\* minutes and whole hours the comparison is that of the minutes
AllowedOf(egs, ts) ==
    [k \in (DOMAIN egs) \X (DOMAIN ts) |->
        /\ ts[k[2]].duration_minutes >= 60 * egs[k[1]].hours_per_day.min
        /\ ts[k[2]].duration_minutes <= 60 * egs[k[1]].hours_per_day.max]

\* t["duration_minutes"] of line 141 raises KeyError for a template without the key
lacks_duration(ts) == \E tid \in DOMAIN ts : "duration_minutes" \notin DOMAIN ts[tid]

\* Lines 122-142: coverage spans and eligibility.
Precompute ==
    /\ pc = "precompute"
    /\ cov' = CovOf(data.shift_templates, TimeIdx.bucket_minutes, buckets_per_day(TimeIdx))
    /\ IF DOMAIN data.employment_groups # {} /\ lacks_duration(data.shift_templates)
       THEN /\ err' = "KeyError duration_minutes"
            /\ pc' = "failed"
            /\ UNCHANGED allowed
       ELSE /\ allowed' = AllowedOf(data.employment_groups, data.shift_templates)
            /\ pc' = "build"
            /\ UNCHANGED err
    /\ UNCHANGED <<data, idx, demand, sg_stream, weights, prob, sol, status, result,
                   fin, fout, pageVars>>

max_day_off == 1

\* the keys of s: (employee, day, template) for the templates allowed to the group
SKeys ==
    {k \in Employees \X (0..(TimeIdx.days - 1)) \X (DOMAIN data.shift_templates) :
        Get(allowed, <<data.employees[k[1]].employment_group_id, k[3]>>, FALSE)}

\* the keys of z: (employee, day, bucket, skill group) for the skills the employee has
ZKeys ==
    {k \in Employees \X (0..(TimeIdx.days - 1)) \X (0..(buckets_per_day(TimeIdx) - 1))
            \X UNION {skills(x) : x \in Employees} : k[4] \in skills(k[1])}

\* A mutant of UKeys: only the keys the forecast has demand for.
UKeys_DemandOnly ==
    {k \in {<<sl[1], sl[2], sg>> : sl \in iter_day_buckets(TimeIdx), sg \in data.skill_groups} :
        k \in DOMAIN demand}

\* the keys of u: (day, bucket, skill group) for the declared skill groups
UKeys == {<<sl[1], sl[2], sg>> : sl \in iter_day_buckets(TimeIdx), sg \in data.skill_groups}

\* A mutant of WorkTerms: only the shifts started on the day itself are summed.
WorkTerms_SameDay(skeys, emp, day, b) ==
    {k \in skeys : k[1] = emp /\ k[2] = day /\ <<k[3], 0, b>> \in cov}

\* the assign variables summed in work[(emp, day, b)] (lines 164-178)
WorkTerms(skeys, emp, day, b) ==
    {k \in skeys :
        /\ k[1] = emp
        /\ \E day_off \in 0..max_day_off :
              /\ k[2] = day - day_off
              /\ day - day_off >= 0
              /\ <<k[3], day_off, b>> \in cov}

\* TimeIndex.week_of_day
week_of_day(day_idx) == day_idx \div 7

\* A mutant of WeeksOf: only the full blocks of 7 days are listed.
WeeksOf_FullOnly(ti) == 0..((ti.days \div 7) - 1)

\* TimeIndex.weeks: range((days + 6) // 7)
WeeksOf(ti) == 0..(((ti.days + 6) \div 7) - 1)

weeks == WeeksOf(TimeIdx)

\* A mutant of BlockDays: the block starts at the first Monday on or after day 7w.
BlockDays_Calendar(ti, w) ==
    LET shift == (7 - weekday(ti.start_date)) % 7
    IN  {day \in 0..(ti.days - 1) : w * 7 + shift <= day /\ day < w * 7 + shift + 7}

\* range(day_start, day_end) of week w (lines 198-201)
BlockDays(ti, w) ==
    LET day_start == w * 7
        day_end == Min(ti.days, day_start + 7)
    IN  {day \in 0..(ti.days - 1) : day_start <= day /\ day < day_end}

\* A mutant of ObjCoeff: understaff costs nothing.
ObjCoeff_Zero(k) == 0

\* the objective coefficient of u[(day, b, sg)] (lines 252-258)
ObjCoeff(k) ==
    IF k[3] \notin DOMAIN sg_stream THEN Baseline
    ELSE Get(weights, <<k[1], k[2], sg_stream[k[3]]>>, Baseline)

Families == {"one_shift", "week_hours", "alloc_le_work", "cov", "no_over_alloc"}

\* Lines 144-259: the variables, the constraint families and the objective.
BuildModel ==
    /\ pc = "build"
    /\ prob' = [s |-> SKeys, z |-> ZKeys, u |-> UKeys, constraints |-> Families,
                objective |-> [k \in UKeys |-> ObjCoeff(k)]]
    /\ pc' = "solve"
    /\ UNCHANGED <<data, idx, demand, sg_stream, weights, cov, allowed, sol, status,
                   result, err, fin, fout, pageVars>>

----------------------------------------------------------------------------
(* The linear constraints, as predicates on the values of the variables.  sv gives
   the s variables their values; c gives the z variables of one slot theirs, by
   (employee, skill group). *)

\* req = demand.get((day, b, sg), 0)
req(day, b, sg) == Get(demand, <<day, b, sg>>, 0)

\* A mutant of one_shift_ok: the bound of the constraint is 2.
one_shift_ok_Two(sv, emp, day) ==
    Cardinality({k \in DOMAIN sv : k[1] = emp /\ k[2] = day /\ sv[k] = 1}) <= 2

\* one_shift_{emp}_d{day} (lines 181-189)
one_shift_ok(sv, emp, day) ==
    Cardinality({k \in DOMAIN sv : k[1] = emp /\ k[2] = day /\ sv[k] = 1}) <= 1

\* lhs_hours of week w, in minutes (lines 198-207)
week_minutes(sv, emp, w) ==
    LET ks == {k \in DOMAIN sv : k[1] = emp /\ k[2] \in BlockDays(TimeIdx, w)}
    IN  SumF([k \in ks |-> data.shift_templates[k[3]].duration_minutes * sv[k]], ks)

\* min_week_hours_{emp}_w{w} and max_week_hours_{emp}_w{w} (lines 208-209)
week_hours_ok(sv, emp, w) ==
    LET hw == data.employment_groups[data.employees[emp].employment_group_id].hours_per_week
    IN  /\ week_minutes(sv, emp, w) >= 60 * hw.min
        /\ week_minutes(sv, emp, w) <= 60 * hw.max

\* the value of work[(emp, day, b)]
work(sv, emp, day, b) ==
    Cardinality({k \in WorkTerms(DOMAIN sv, emp, day, b) : sv[k] = 1})

\* A mutant of alloc_le_work_ok: the allocation is bounded by 1, not by work.
alloc_le_work_ok_One(sv, c, emp, day, b) ==
    Cardinality({sg \in skills(emp) : c[<<emp, sg>>] = 1}) <= 1

\* alloc_le_work_{emp}_d{day}_b{b} (lines 226-232)
alloc_le_work_ok(sv, c, emp, day, b) ==
    Cardinality({sg \in skills(emp) : c[<<emp, sg>>] = 1}) <= work(sv, emp, day, b)

\* the sum of z over the employees that have sg (lines 239-242)
alloc_sum(c, sg) ==
    Cardinality({e \in Employees : sg \in skills(e) /\ c[<<e, sg>>] = 1})

\* The understaff variables are continuous (line 223).  Their values are counted
\* in units of the extraction threshold 1e-6 of line 308; PerAgent units make one
\* agent (10^6 of them in the code).
PerAgent == 2

\* val <= 1e-6 (line 308), in units
Threshold == 1

\* cov_{sg}_d{day}_b{b} (line 244)
cov_ok(c, uval, day, b, sg) ==
    PerAgent * alloc_sum(c, sg) + uval >= PerAgent * req(day, b, sg)

\* A mutant of no_over_alloc_ok: the constraint is added only for req > 0.
no_over_alloc_ok_Positive(c, day, b, sg) ==
    req(day, b, sg) > 0 => alloc_sum(c, sg) <= req(day, b, sg)

\* no_over_alloc_{sg}_d{day}_b{b} (lines 247-248)
no_over_alloc_ok(c, day, b, sg) ==
    req(day, b, sg) >= 0 => alloc_sum(c, sg) <= req(day, b, sg)

----------------------------------------------------------------------------
(* The solver: PULP_CBC_CMD is outside the repository.  It leaves in the variables
   any valuation that satisfies the constraints of prob: with status "Optimal" one
   of least objective, with "Not Solved" (stopped on the time limit) any, or no
   values at all when it stopped before it found one; it reports "Infeasible"
   when there is none. *)

\* slack above the least feasible value is explored up to this many agents, in
\* steps of a unit, on one understaff variable at a time (the constraints on u
\* are per variable)
MaxExtra == 1

RECURSIVE ProdFn(_, _)
\* the functions f on D with f[x] \in ch[x]
ProdFn(ch, D) ==
    IF D = {} THEN {<<>>}
    ELSE LET x == CHOOSE y \in D : TRUE
         IN  {Put(f, x, c) : c \in ch[x], f \in ProdFn(ch, D \ {x})}

SChoices ==
    {sv \in [prob.s -> {0, 1}] :
        /\ "one_shift" \in prob.constraints =>
              \A e \in Employees, day \in 0..(TimeIdx.days - 1) : one_shift_ok(sv, e, day)
        /\ "week_hours" \in prob.constraints =>
              \A e \in Employees, w \in weeks : week_hours_ok(sv, e, w)}

ZPairs == {<<k[1], k[4]>> : k \in prob.z}

ZSlotChoices(sv, day, b) ==
    {c \in [ZPairs -> {0, 1}] :
        /\ "alloc_le_work" \in prob.constraints =>
              \A e \in Employees : alloc_le_work_ok(sv, c, e, day, b)
        /\ "no_over_alloc" \in prob.constraints =>
              \A sg \in data.skill_groups : no_over_alloc_ok(c, day, b, sg)}

\* the values of the z variables, from the per-slot values
ZOf(f) == [k \in prob.z |-> f[<<k[2], k[3]>>][<<k[1], k[4]>>]]

ZChoices(sv) ==
    LET slots == iter_day_buckets(TimeIdx)
    IN  {ZOf(f) : f \in ProdFn([sl \in slots |-> ZSlotChoices(sv, sl[1], sl[2])], slots)}

\* the z values of one slot, by (employee, skill group)
SlotOf(zv, day, b) == [pr \in ZPairs |-> zv[<<pr[1], day, b, pr[2]>>]]

\* the least values of u the coverage constraints allow (lowBound=0)
ULeast(zv) ==
    [k \in prob.u |->
        IF "cov" \in prob.constraints
        THEN LeastOf({x \in 0..(PerAgent * Max(0, req(k[1], k[2], k[3]))) :
                         cov_ok(SlotOf(zv, k[1], k[2]), x, k[1], k[2], k[3])})
        ELSE 0]

UChoices(zv) ==
    UNION {{u0} \cup {[u0 EXCEPT ![k] = @ + x] : k \in prob.u, x \in 1..(MaxExtra * PerAgent)} :
           u0 \in {ULeast(zv)}}

Solutions ==
    UNION {UNION {{[s |-> sv, z |-> zv, u |-> uv] : uv \in UChoices(zv)} :
                  zv \in ZChoices(sv)} :
           sv \in SChoices}

\* the value of the objective (lines 251-259), in hundredths
Objective(uv) == SumF([k \in DOMAIN uv |-> prob.objective[k] * uv[k]], DOMAIN uv)

\* var.value() of a variable the solver gave no value: None
NoValue == 0 - 1

\* float(var.value() or 0.0)
Val(v) == IF v = NoValue THEN 0 ELSE v

\* the variables when the solver set nothing
Unset ==
    [s |-> [k \in prob.s |-> NoValue], z |-> [k \in prob.z |-> NoValue],
     u |-> [k \in prob.u |-> NoValue]]

\* timeLimit=float(time_limit) if time_limit else None (lines 262-266)
has_time_limit == data.solver.time_limit_seconds # 0

\* Lines 261-269: prob.solve(solver).
Solve ==
    /\ pc = "solve"
    /\ \E sols \in {Solutions} :
          \/ /\ sols = {}
             /\ status' = "Infeasible"
             /\ sol' = Unset
          \/ /\ sols # {}
             /\ \E least \in {LeastOf({Objective(x.u) : x \in sols})} :
                   \E x \in sols, st \in {"Optimal", "Not Solved"} :
                      /\ st = "Optimal" => Objective(x.u) = least
                      /\ st = "Not Solved" => has_time_limit
                      /\ sol' = x
                      /\ status' = st
          \/ /\ has_time_limit
             /\ status' = "Not Solved"
             /\ sol' = Unset
    /\ pc' = "extract"
    /\ UNCHANGED <<data, idx, demand, sg_stream, weights, cov, allowed, prob, result,
                   err, fin, fout, pageVars>>

\* the weight reported in a row: 1.0 when the skill group has no stream
RowWeight(k) ==
    IF k[3] \notin DOMAIN sg_stream THEN Baseline
    ELSE Get(weights, <<k[1], k[2], sg_stream[k[3]]>>, Baseline)

\* sg_stream.get(sg, ("", ""))
StreamOf(sg) == Get(sg_stream, sg, <<"", "">>)

\* lines 272-289
employee_shifts ==
    {[employee_id |-> k[1], day_index |-> k[2],
      employment_group_id |-> data.employees[k[1]].employment_group_id,
      shift_template_id |-> k[3]] : k \in {k \in prob.s : sol.s[k] = 1}}

\* lines 291-302
employee_allocation ==
    {[employee_id |-> k[1], day_index |-> k[2], bucket_index |-> k[3],
      skill_group_id |-> k[4], work |-> 1] : k \in {k \in prob.z : sol.z[k] = 1}}

\* lines 304-324
understaff ==
    {[day_index |-> k[1], bucket_index |-> k[2], skill_group_id |-> k[3],
      direction |-> StreamOf(k[3])[1], channel |-> StreamOf(k[3])[2],
      required |-> req(k[1], k[2], k[3]), understaff |-> sol.u[k],
      weight |-> RowWeight(k)] : k \in {k \in prob.u : ~(Val(sol.u[k]) <= Threshold)}}

\* lines 326-349
coverage ==
    {[day_index |-> k[1], bucket_index |-> k[2], skill_group_id |-> k[3],
      direction |-> StreamOf(k[3])[1], channel |-> StreamOf(k[3])[2],
      required |-> req(k[1], k[2], k[3]),
      allocated |-> Cardinality({e \in Employees :
                        k[3] \in skills(e) /\ sol.z[<<e, k[1], k[2], k[3]>>] = 1}),
      understaff |-> Val(sol.u[k]),
      weight |-> RowWeight(k)] : k \in prob.u}

\* total_under: the sum of the values above the threshold (lines 305-311)
total_under ==
    LET listed == {k \in prob.u : ~(Val(sol.u[k]) <= Threshold)}
    IN  SumF([k \in listed |-> sol.u[k]], listed)

\* the returned dict (lines 351-359)
ResultOf ==
    [status |-> status,
     objective_value |-> Objective([k \in DOMAIN sol.u |-> Val(sol.u[k])]),
     total_understaff |-> total_under,
     employee_shifts |-> employee_shifts,
     employee_allocation |-> employee_allocation,
     understaff |-> understaff,
     coverage |-> coverage]

\* A mutant of Extract: a status other than Optimal is raised as an error.
Extract_OptimalOnly ==
    /\ pc = "extract"
    /\ IF status = "Optimal"
       THEN /\ result' = ResultOf
            /\ pc' = "done"
            /\ UNCHANGED err
       ELSE /\ err' = status
            /\ pc' = "failed"
            /\ UNCHANGED result
    /\ UNCHANGED <<data, idx, demand, sg_stream, weights, cov, allowed, prob, sol,
                   status, fin, fout, pageVars>>

\* Lines 271-359: the result collections and the returned dict.
Extract ==
    /\ pc = "extract"
    /\ result' = ResultOf
    /\ pc' = "done"
    /\ UNCHANGED <<data, idx, demand, sg_stream, weights, cov, allowed, prob, sol,
                   status, err, fin, fout, pageVars>>

----------------------------------------------------------------------------
(* Function-level specifications: Init draws the arguments, one action applies
   the function.  The variables of build_and_solve stay idle. *)

Idle == <<>>

IdleRun ==
    /\ data = Idle /\ idx = 0 /\ demand = Idle /\ sg_stream = Idle /\ weights = Idle
    /\ cov = {} /\ allowed = Idle /\ prob = {} /\ sol = Idle /\ status = None
    /\ result = Idle /\ err = None

runVars == <<data, idx, demand, sg_stream, weights, cov, allowed, prob, sol, status,
             result, err>>

\* bounds of the function-level specifications
MaxDays == 2
MaxPatternLen == 3
MaxRules == 2

\* bucket sizes that divide the day (viz.py notes that the v1 schema fixes 30)
BucketMinutes == {30, 60, 720}

\* the first day of every modelled horizon: a Monday
StartDates == {8}

TimeGrids ==
    [start_date : StartDates, days : 1..MaxDays, bucket_minutes : BucketMinutes]

\* datetimes around the horizon: the day before it to the day after it
Datetimes ==
    [date : {sd - 1 + k : sd \in StartDates, k \in 0..(MaxDays + 1)},
     hour : {0, 6, 12, 23}, minute : {0, 15, 30, 45}, second : {0, 30}]

InitTime ==
    /\ pc = "call"
    /\ fin \in [fn : {"day_bucket_from_dt"}, ti : TimeGrids, dt : Datetimes]
    /\ fout = None /\ IdlePage
    /\ IdleRun

CallDayBucketFromDt ==
    /\ pc = "call"
    /\ fin.fn = "day_bucket_from_dt"
    /\ fout' = day_bucket_from_dt(fin.ti, fin.dt)
    /\ pc' = "returned"
    /\ UNCHANGED <<fin, runVars, pageVars>>

NextTime == CallDayBucketFromDt

SpecTime == InitTime /\ [][NextTime]_vars

\* shift templates: duration mode (multiples of the bucket and not), pattern mode
\* (with and without a duration beside it), starts that wrap past midnight
StartTimes == {<<0, 0>>, <<9, 0>>, <<22, 0>>, <<23, 30>>}

Durations == {30, 45, 240, 480, 1500}

Patterns == UNION {[1..n -> {0, 1}] : n \in 0..MaxPatternLen}

TemplateInputs ==
    [start_time_local : StartTimes, duration_minutes : Durations]
    \cup [start_time_local : StartTimes, bucket_work_pattern : Patterns]
    \cup [start_time_local : StartTimes, duration_minutes : {480},
          bucket_work_pattern : Patterns]

InitCov ==
    /\ pc = "call"
    /\ fin \in [fn : {"template_covers_bucket"}, t : TemplateInputs,
                bucket_minutes : BucketMinutes]
    /\ fout = None /\ IdlePage
    /\ IdleRun

\* lines 129-132 for one template: the list, and the keys it leaves in cov
CallTemplateCoversBucket ==
    /\ pc = "call"
    /\ fin.fn = "template_covers_bucket"
    /\ LET bpd == buckets_per_day([bucket_minutes |-> fin.bucket_minutes])
           spans == template_covers_bucket(fin.t, fin.bucket_minutes, bpd)
       IN  fout' = [spans |-> spans,
                    cov |-> CovOf([t \in {"t"} |-> fin.t], fin.bucket_minutes, bpd)]
    /\ pc' = "returned"
    /\ UNCHANGED <<fin, runVars, pageVars>>

NextCov == CallTemplateCoversBucket

SpecCov == InitCov /\ [][NextCov]_vars

\* horizons of up to MaxSpan days from every day of the week
MaxSpan == 15

WeekStartDates == 8..14

InitWeeks ==
    /\ pc = "call"
    /\ fin \in [fn : {"weeks"},
                ti : [start_date : WeekStartDates, days : 1..MaxSpan, bucket_minutes : {720}]]
    /\ fout = None /\ IdlePage
    /\ IdleRun

\* the weekly blocks of lines 197-201 and the week of every day of the horizon
CallWeeks ==
    /\ pc = "call"
    /\ fin.fn = "weeks"
    /\ fout' = [blocks |-> [w \in WeeksOf(fin.ti) |-> BlockDays(fin.ti, w)],
                week_of |-> [d \in 0..(fin.ti.days - 1) |-> week_of_day(d)]]
    /\ pc' = "returned"
    /\ UNCHANGED <<fin, runVars, pageVars>>

NextWeeks == CallWeeks

SpecWeeks == InitWeeks /\ [][NextWeeks]_vars

\* priority windows on a two-bucket grid: day filters, ranges that end inside the
\* day and past its end, entries with an explicit weight and with a rank only
WindowTimes == {<<<<0, 0>>, <<12, 0>>>>, <<<<0, 0>>, <<24, 0>>>>, <<<<12, 0>>, <<36, 0>>>>}

DayFilters == {{}, {"tue"}}

Entries ==
    {[direction |-> "inbound", channel |-> "voice", rank |-> 2, understaff_weight |-> 1000],
     [direction |-> "inbound", channel |-> "voice", rank |-> 1, understaff_weight |-> 2500],
     [direction |-> "inbound", channel |-> "voice", rank |-> 4],
     [direction |-> "outbound", channel |-> "voice", rank |-> 1]}

EntryLists ==
    {<<e>> : e \in {e \in Entries : e.direction = "inbound"}} \cup
    {<<[direction |-> "inbound", channel |-> "voice", rank |-> 2, understaff_weight |-> 1000],
       [direction |-> "outbound", channel |-> "voice", rank |-> 1]>>}

Windows ==
    {w \in [start_time_local : {wt[1] : wt \in WindowTimes},
            end_time_local : {wt[2] : wt \in WindowTimes},
            applies_to_days : DayFilters, priorities : EntryLists] :
        /\ <<w.start_time_local, w.end_time_local>> \in WindowTimes
        /\ w.applies_to_days # {} => w.end_time_local = <<24, 0>>}

\* the streams of the forecast's skill groups
KnownStreams == {<<"inbound", "voice">>, <<"inbound", "chat">>}

WeightGrids == [start_date : StartDates, days : {MaxDays}, bucket_minutes : {720}]

RuleLists == UNION {[1..n -> Windows] : n \in 0..MaxRules}

\* a rule list in another order, or with one of its windows listed once more
Reorderings(rules) ==
    {[i \in DOMAIN rules |-> rules[p[i]]] : p \in Perms(DOMAIN rules)}
    \cup {Append(rules, rules[i]) : i \in DOMAIN rules}
    \cup {<<rules[i]>> \o rules : i \in DOMAIN rules}

InitWeights ==
    /\ pc = "call"
    /\ \E ti \in WeightGrids, rules \in RuleLists :
         \E other \in Reorderings(rules) :
            fin = [fn |-> "weights", ti |-> ti, streams |-> KnownStreams,
                   rules |-> rules, other |-> other]
    /\ fout = None /\ IdlePage
    /\ IdleRun

\* lines 89-120 on the rule list and on its reordering
CallResolveWeights ==
    /\ pc = "call"
    /\ fin.fn = "weights"
    /\ fout' = [w |-> ResolveWeights(fin.ti, fin.streams, fin.rules),
                other |-> ResolveWeights(fin.ti, fin.streams, fin.other)]
    /\ pc' = "returned"
    /\ UNCHANGED <<fin, runVars, pageVars>>

NextWeights == CallResolveWeights

SpecWeights == InitWeights /\ [][NextWeights]_vars

----------------------------------------------------------------------------
(* Runs of build_and_solve *)

Row(date, hh, mm, ss, sg, stream, n) ==
    [timestamp_local |-> [date |-> date, hour |-> hh, minute |-> mm, second |-> ss],
     skill_group_id |-> sg, direction |-> stream[1], channel |-> stream[2], agents |-> n]

Voice == <<"inbound", "voice">>

Chat == <<"inbound", "chat">>

Outbound == <<"outbound", "voice">>

\* a night shift that wraps into the next day and a morning shift, on a grid of two
\* buckets a day
RunTemplates ==
    [tid \in {"N", "M"} |->
        IF tid = "N" THEN [start_time_local |-> <<12, 0>>, duration_minutes |-> 1440]
        ELSE [start_time_local |-> <<0, 0>>, duration_minutes |-> 720]]

\* e1 may work both shifts and has two skills; e2 may work the morning shift only
Payload(fc, e2skills, ptWeekMin, bm) ==
    [time |-> [start_date |-> CHOOSE d \in StartDates : TRUE, days |-> 2,
               bucket_minutes |-> bm],
     forecast |-> fc,
     priority_rules |->
        <<[start_time_local |-> <<0, 0>>, end_time_local |-> <<12, 0>>,
           applies_to_days |-> {},
           priorities |-> <<[direction |-> "inbound", channel |-> "voice", rank |-> 1,
                             understaff_weight |-> 2500]>>]>>,
     operating_hours |-> {},
     skill_groups |-> {"A", "B"},
     employees |->
        [e \in {"e1", "e2"} |->
            IF e = "e1" THEN [employment_group_id |-> "ft", skill_group_ids |-> {"A", "B"}]
            ELSE [employment_group_id |-> "pt", skill_group_ids |-> e2skills]],
     employment_groups |->
        [g \in {"ft", "pt"} |->
            IF g = "ft"
            THEN [hours_per_day |-> [min |-> 12, max |-> 24],
                  hours_per_week |-> [min |-> 0, max |-> 48]]
            ELSE [hours_per_day |-> [min |-> 4, max |-> 12],
                  hours_per_week |-> [min |-> ptWeekMin, max |-> 24]]],
     shift_templates |-> RunTemplates,
     solver |-> [time_limit_seconds |-> 0]]

\* forecasts of the runs: two skills wanted in the slot both shifts reach, two
\* rows adding up on one slot, demand spread over two days, none, a row outside
\* the horizon, and a second row that is outside the horizon, a quarter of an
\* hour off the grid, of a second stream, or thirty seconds off the grid
Forecasts ==
    LET d0 == CHOOSE d \in StartDates : TRUE
    IN  {<<Row(d0 + 1, 0, 0, 0, "A", Voice, 1), Row(d0 + 1, 0, 0, 0, "B", Chat, 1)>>,
         <<Row(d0, 12, 0, 0, "A", Voice, 1), Row(d0, 12, 0, 0, "A", Voice, 1)>>,
         <<Row(d0, 0, 0, 0, "A", Voice, 1), Row(d0 + 1, 0, 0, 0, "B", Chat, 2)>>,
         <<>>,
         <<Row(d0 + 2, 0, 0, 0, "A", Voice, 1)>>,
         <<Row(d0, 0, 0, 0, "A", Voice, 1), Row(d0 + 2, 0, 0, 0, "A", Voice, 1)>>,
         <<Row(d0, 0, 0, 0, "A", Voice, 1), Row(d0, 0, 15, 0, "A", Voice, 1)>>,
         <<Row(d0, 0, 0, 0, "A", Voice, 1), Row(d0, 12, 0, 0, "A", Outbound, 1)>>,
         <<Row(d0, 0, 0, 0, "A", Voice, 1), Row(d0, 12, 0, 30, "A", Voice, 1)>>}

NoProblem == [s |-> {}, z |-> {}, u |-> {}, constraints |-> {}, objective |-> <<>>]

\* the state at line 66, for payload p
Start(p) ==
    /\ pc = "aggregate" /\ data = p /\ idx = 1
    /\ demand = <<>> /\ sg_stream = <<>> /\ weights = <<>>
    /\ cov = {} /\ allowed = <<>> /\ prob = NoProblem /\ sol = Idle /\ status = None
    /\ result = Idle /\ err = None /\ fin = Idle /\ fout = None /\ IdlePage

\* time_limit_seconds of the solver section; 0 stands for none given
TimeLimits == {0, 60}

\* a template given by its pattern alone, beside the two of RunTemplates
PatternTemplates ==
    [tid \in {"N", "M", "P"} |->
        IF tid = "P" THEN [start_time_local |-> <<12, 0>>, bucket_work_pattern |-> <<1, 0, 1>>]
        ELSE RunTemplates[tid]]

\* the payloads of the runs: the forecasts with the second employee holding an
\* undeclared skill or not and having a weekly minimum out of reach or not; a
\* template without duration_minutes; an employment group with one template
\* below its daily minimum and the other above its daily maximum
Payloads ==
    {Payload(fc, sk, m, 720) : fc \in Forecasts, sk \in {{"A"}, {"A", "X"}}, m \in {0, 36}}
    \cup {[Payload(fc, {"A"}, 0, 720) EXCEPT !.shift_templates = PatternTemplates] :
             fc \in {<<>>, <<Row(CHOOSE d \in StartDates : TRUE, 0, 0, 0, "A", Voice, 1)>>}}
    \cup {[Payload(<<Row(CHOOSE d \in StartDates : TRUE, 0, 0, 0, "A", Voice, 2)>>, {"A"}, m, 720)
              EXCEPT !.employment_groups["pt"].hours_per_day = [min |-> 16, max |-> 20]] :
             m \in {0, 4}}

\* days of the horizon of the runs with more than one weekly block
LongHorizon == 8

\* one employee, one 12-hour day shift, LongHorizon days, one agent wanted on the
\* last day; the weekly hours are within reach of both blocks, or the minimum is
\* out of reach of the short last block
WeekPayloads ==
    {[time |-> [start_date |-> CHOOSE d \in StartDates : TRUE, days |-> LongHorizon,
                bucket_minutes |-> 720],
      forecast |-> <<Row((CHOOSE d \in StartDates : TRUE) + LongHorizon - 1, 0, 0, 0,
                         "A", Voice, 1)>>,
      priority_rules |-> <<>>,
      operating_hours |-> {},
      skill_groups |-> {"A"},
      employees |-> [e \in {"e1"} |-> [employment_group_id |-> "wk",
                                        skill_group_ids |-> {"A"}]],
      employment_groups |->
         [g \in {"wk"} |-> [hours_per_day |-> [min |-> 4, max |-> 12],
                            hours_per_week |-> [min |-> hw[1], max |-> hw[2]]]],
      shift_templates |->
         [tid \in {"D"} |-> [start_time_local |-> <<0, 0>>, duration_minutes |-> 720]],
      solver |-> [time_limit_seconds |-> 0]] : hw \in {<<12, 24>>, <<0, 12>>, <<36, 48>>}}

\* one employee, a shift that starts at noon and lasts 48 hours, so that its
\* coverage reaches the first bucket of the second day after, and a shift of 1000
\* minutes, which is not a number of whole buckets; three days, one
\* agent wanted in the first bucket of the last day; no priority rule, or a
\* whole-day window whose entry weighs less than 1.0 (by its rank or explicitly);
\* with or without a forecast row for a skill group that is not declared
LowWeightRules ==
    {<<>>} \cup
    {<<[start_time_local |-> <<0, 0>>, end_time_local |-> <<24, 0>>, applies_to_days |-> {},
        priorities |-> <<e>>]>> :
        e \in {[direction |-> "inbound", channel |-> "voice", rank |-> 4],
               [direction |-> "inbound", channel |-> "voice", rank |-> 7],
               [direction |-> "inbound", channel |-> "voice", rank |-> 3,
                understaff_weight |-> 50]}}

LongShiftForecasts ==
    LET d2 == (CHOOSE d \in StartDates : TRUE) + 2
    IN  {<<Row(d2, 0, 0, 0, "A", Voice, 1)>>,
         <<Row(d2, 0, 0, 0, "A", Voice, 1), Row(d2, 12, 0, 0, "U", Chat, 2)>>}

LongShiftPayloads ==
    {[time |-> [start_date |-> CHOOSE d \in StartDates : TRUE, days |-> 3,
                bucket_minutes |-> 720],
      forecast |-> fc,
      priority_rules |-> rules,
      operating_hours |-> {},
      skill_groups |-> {"A"},
      employees |-> [e \in {"e1"} |-> [employment_group_id |-> "xl",
                                        skill_group_ids |-> {"A"}]],
      employment_groups |->
         [g \in {"xl"} |-> [hours_per_day |-> [min |-> 0, max |-> 48],
                            hours_per_week |-> [min |-> 0, max |-> 48]]],
      shift_templates |->
         [tid \in {"L", "Q"} |->
            IF tid = "L" THEN [start_time_local |-> <<12, 0>>, duration_minutes |-> 2880]
            ELSE [start_time_local |-> <<0, 0>>, duration_minutes |-> 1000]],
      solver |-> [time_limit_seconds |-> 0]] :
        fc \in LongShiftForecasts, rules \in LowWeightRules}

Init ==
    \E p \in Payloads \cup WeekPayloads \cup LongShiftPayloads, tl \in TimeLimits :
        Start([p EXCEPT !.solver.time_limit_seconds = tl])

Next ==
    \/ AggregateRow
    \/ ResolveWeightsStep
    \/ Precompute
    \/ BuildModel
    \/ Solve
    \/ Extract

Spec == Init /\ [][Next]_vars

\* what the input schema asks of the time grid: bucket_minutes divides the day
schema_ok(p) == 1440 % p.time.bucket_minutes = 0

\* A mutant of ValidateInput: the payload is passed on whatever the validation says.
ValidateInput_NoRaise ==
    /\ pc = "validate"
    /\ pc' = "aggregate"
    /\ UNCHANGED <<data, idx, demand, sg_stream, weights, cov, allowed, prob, sol,
                   status, result, err, fin, fout, pageVars>>

\* solve_file: validate_input, ValueError when it fails, else build_and_solve
ValidateInput ==
    /\ pc = "validate"
    /\ IF schema_ok(data)
       THEN pc' = "aggregate" /\ err' = err
       ELSE pc' = "failed" /\ err' = "ValueError schema"
    /\ UNCHANGED <<data, idx, demand, sg_stream, weights, cov, allowed, prob, sol,
                   status, result, fin, fout, pageVars>>

\* the payloads of the runs, and payloads whose bucket_minutes does not divide the day
FilePayloads ==
    Payloads \cup WeekPayloads \cup LongShiftPayloads \cup
    {[p EXCEPT !.time.bucket_minutes = bm] : p \in LongShiftPayloads, bm \in {7, 1000}}

\* solve_file(input_path) after load_json
InitFile ==
    \E p \in FilePayloads, tl \in TimeLimits :
        /\ pc = "validate" /\ data = [p EXCEPT !.solver.time_limit_seconds = tl] /\ idx = 1
        /\ demand = <<>> /\ sg_stream = <<>> /\ weights = <<>>
        /\ cov = {} /\ allowed = <<>> /\ prob = NoProblem /\ sol = Idle /\ status = None
        /\ result = Idle /\ err = None /\ fin = Idle /\ fout = None /\ IdlePage

NextFile ==
    \/ ValidateInput
    \/ AggregateRow
    \/ ResolveWeightsStep
    \/ Precompute
    \/ BuildModel
    \/ Solve
    \/ Extract

SpecFile == InitFile /\ [][NextFile]_vars

\* the aggregation alone, on forecasts of up to MaxRows rows on a 30-minute grid:
\* rows on a boundary (two of them on one key with different counts), a quarter
\* past it, thirty seconds past it, outside the horizon, and skill groups seen
\* with a second stream (once on a row that is also outside the horizon)
MaxRows == 3

AggRows ==
    LET d0 == CHOOSE d \in StartDates : TRUE
    IN  {Row(d0, 6, 0, 0, "A", Voice, 1), Row(d0, 6, 0, 0, "A", Voice, 2),
         Row(d0 + 1, 6, 0, 0, "A", Voice, 1), Row(d0, 6, 0, 0, "B", Chat, 1),
         Row(d0, 6, 30, 0, "B", Chat, 2),
         Row(d0, 6, 0, 0, "A", Outbound, 1), Row(d0, 6, 30, 0, "B", Voice, 1),
         Row(d0, 6, 15, 0, "A", Voice, 1), Row(d0, 6, 0, 30, "A", Voice, 1),
         Row(d0 + 2, 6, 0, 0, "A", Voice, 1), Row(d0 + 2, 6, 0, 0, "A", Outbound, 1)}

InitAgg ==
    \E fc \in UNION {[1..n -> AggRows] : n \in 0..MaxRows} :
        Start(Payload(fc, {"A"}, 0, 30))

NextAgg == AggregateRow

SpecAgg == InitAgg /\ [][NextAgg]_vars

-----------------------------------------------------------------------------
(* viz.py: the script of the HTML report that keeps the x-axes of the figures in
   step.  Plotly.js comes from the CDN (line 262) and is outside the repository:
   of a call Plotly.relayout(gd, update) the model has that it throws or returns
   a promise, that the figure then emits plotly_relayout for it, and that the
   promise settles.  The order of the event and the settling, and what else the
   page handles between them, is left open. *)

\* figIds (line 289)
figIds == <<"fig0", "fig1", "fig2">>

Figs == SeqToSet(figIds)

\* plotly_relayout events handled in one run, and zooms by the user among them
MaxEvents == 5

MaxZooms == 2

\* the figures of the loop of line 589 for a source, in its order
Targets(sourceId) == SelectSeq(figIds, LAMBDA id : id # sourceId)

\* syncFrom(sourceId, ev) for an event that changes the x-range, with rl the
\* relayout calls made so far; kind tells a zoom by the user from the event of a
\* relayout call and is kept in the log only
syncFrom(sourceId, kind, rl) ==
    IF globalSyncing \/ syncing[sourceId]
    THEN /\ log' = Append(log, [src |-> sourceId, kind |-> kind, propagated |-> FALSE,
                                targets |-> {}])
         /\ relayouts' = rl
         /\ UNCHANGED <<globalSyncing, syncing>>
    ELSE \E thrown \in SUBSET (Figs \ {sourceId}) :
            \E ok \in {SelectSeq(Targets(sourceId), LAMBDA id : id \notin thrown)} :
                /\ globalSyncing' = TRUE
                /\ syncing' = [id \in Figs |->
                                 IF id = sourceId THEN syncing[id] ELSE id \notin thrown]
                /\ relayouts' = rl \o [i \in 1..Len(ok) |->
                                          [gd |-> ok[i], call |-> Len(log) + 1,
                                           emitted |-> FALSE, settled |-> FALSE]]
                /\ log' = Append(log, [src |-> sourceId, kind |-> kind,
                                       propagated |-> TRUE,
                                       targets |-> Figs \ {sourceId}])

\* lines 616-626: the flags are cleared and the handlers attached
InitSync ==
    /\ pc = "page" /\ fin = Idle /\ fout = Idle /\ IdleRun
    /\ globalSyncing = FALSE
    /\ syncing = [id \in Figs |-> FALSE]
    /\ relayouts = <<>> /\ log = <<>> /\ resolved = {}

\* the user zooms or pans a figure, which emits plotly_relayout to the handler
\* of line 620
UserZoom ==
    /\ pc = "page"
    /\ Len(log) < MaxEvents
    /\ Cardinality({i \in DOMAIN log : log[i].kind = "user"}) < MaxZooms
    /\ \E id \in Figs : syncFrom(id, "user", relayouts)
    /\ UNCHANGED <<pc, fin, fout, runVars, resolved>>

\* the plotly_relayout event of a relayout call reaches the handler of line 620
RelayoutEvent ==
    /\ pc = "page"
    /\ Len(log) < MaxEvents
    /\ \E r \in DOMAIN relayouts :
          /\ ~relayouts[r].emitted
          /\ syncFrom(relayouts[r].gd, "relayout",
                      [relayouts EXCEPT ![r].emitted = TRUE])
    /\ UNCHANGED <<pc, fin, fout, runVars, resolved>>

\* the promise of a relayout call settles: the callbacks of lines 598-601
PromiseSettled ==
    /\ pc = "page"
    /\ \E r \in DOMAIN relayouts :
          /\ ~relayouts[r].settled
          /\ relayouts' = [relayouts EXCEPT ![r].settled = TRUE]
          /\ syncing' = [syncing EXCEPT ![relayouts[r].gd] = FALSE]
    /\ UNCHANGED <<pc, fin, fout, runVars, globalSyncing, log, resolved>>

\* Promise.all of one call of syncFrom: the callbacks of lines 610-613
AllSettled ==
    /\ pc = "page"
    /\ \E c \in DOMAIN log :
          /\ log[c].propagated
          /\ c \notin resolved
          /\ \A r \in DOMAIN relayouts : relayouts[r].call = c => relayouts[r].settled
          /\ resolved' = resolved \cup {c}
    /\ globalSyncing' = FALSE
    /\ UNCHANGED <<pc, fin, fout, runVars, syncing, relayouts, log>>

NextSync ==
    \/ UserZoom
    \/ RelayoutEvent
    \/ PromiseSettled
    \/ AllSettled

SpecSync == InitSync /\ [][NextSync]_vars

----------------------------------------------------------------------------
(* Claims *)

\* number of 1-flags of a pattern
Ones(pattern) == Cardinality({i \in DOMAIN pattern : pattern[i] = 1})

\* C7: the covered (day_offset, bucket_in_day) pairs of a template are exactly
\* duration_minutes / bucket_minutes many (truncating division) in duration mode
\* and exactly as many as the pattern has 1-flags in pattern mode: no two
\* offsets fall on the same pair, also across the midnight wrap.
C7_CoverageCount ==
    (pc = "returned" /\ fin.fn = "template_covers_bucket") =>
        LET n == IF "bucket_work_pattern" \in DOMAIN fin.t
                 THEN Ones(fin.t.bucket_work_pattern)
                 ELSE fin.t.duration_minutes \div fin.bucket_minutes
        IN  /\ Cardinality(fout.cov) = n
            /\ Len(fout.spans) = n
            /\ {<<"t", sp[1], sp[2]>> : sp \in SeqToSet(fout.spans)} = fout.cov

\* a duration template whose last partial bucket is dropped and whose coverage
\* wraps into the next day
C7_Witness ==
    /\ pc = "returned" /\ fin.fn = "template_covers_bucket"
    /\ "bucket_work_pattern" \notin DOMAIN fin.t
    /\ fin.t.duration_minutes % fin.bucket_minutes # 0
    /\ \E a \in fout.cov, b \in fout.cov : a[2] = 0 /\ b[2] = 1

\* C10: day_bucket_from_dt returns (date - start_date, minute_of_day / bucket_minutes),
\* inside the grid, exactly when the date lies in the horizon and the minute of
\* the day is a multiple of bucket_minutes; outside the horizon it fails with the
\* out-of-horizon error, inside it and off a boundary with the not-aligned error.
C10_SlotOf ==
    (pc = "returned" /\ fin.fn = "day_bucket_from_dt") =>
        LET ti == fin.ti
            dt == fin.dt
            inHorizon == ti.start_date <= dt.date /\ dt.date < ti.start_date + ti.days
            minuteOfDay == 60 * dt.hour + dt.minute
            aligned == \E k \in 0..(24 * 60) : k * ti.bucket_minutes = minuteOfDay
        IN  /\ (fout.err = None) <=> (inHorizon /\ aligned)
            /\ ~inHorizon => fout.err = "out of horizon"
            /\ (inHorizon /\ ~aligned) => fout.err = "not aligned"
            /\ fout.err = None =>
                  /\ fout.day = dt.date - ti.start_date
                  /\ fout.bucket * ti.bucket_minutes = minuteOfDay
                  /\ 0 <= fout.day /\ fout.day < ti.days
                  /\ 0 <= fout.bucket /\ fout.bucket < buckets_per_day(ti)

\* a slot on the last day of a two-day horizon, not in the first bucket
C10_Witness ==
    /\ pc = "returned" /\ fin.fn = "day_bucket_from_dt"
    /\ fout.err = None
    /\ fin.ti.days > 1 /\ fout.day = fin.ti.days - 1 /\ fout.bucket > 0

\* C5: the resolved weights do not depend on the order of the priority rules, nor
\* on a window being listed twice.
C5_OrderIndependent ==
    (pc = "returned" /\ fin.fn = "weights") => fout.w = fout.other

\* two windows with different weights for one stream meet in a slot, and the
\* rule list is compared with its reversal
C5_Witness ==
    /\ pc = "returned" /\ fin.fn = "weights"
    /\ Len(fin.rules) = 2 /\ fin.other = <<fin.rules[2], fin.rules[1]>>
    /\ fin.other # fin.rules
    /\ \E k \in DOMAIN fout.w :
          /\ WindowHits(fin.ti, fin.rules[1], k[1], k[2])
          /\ WindowHits(fin.ti, fin.rules[2], k[1], k[2])
          /\ fin.rules[1].priorities = <<[direction |-> "inbound", channel |-> "voice",
                                          rank |-> 2, understaff_weight |-> 1000]>>
          /\ fin.rules[2].priorities = <<[direction |-> "inbound", channel |-> "voice",
                                          rank |-> 1, understaff_weight |-> 2500]>>
          /\ k[3] = <<"inbound", "voice">>
          /\ fout.w[k] = 2500

\* the weights of the entries of the rule list that match key k = (d, b, stream)
MatchingWeights(ti, rules, k) ==
    UNION {{EntryWeight(rules[i].priorities[j]) :
                j \in {j \in DOMAIN rules[i].priorities :
                          <<rules[i].priorities[j].direction,
                            rules[i].priorities[j].channel>> = k[3]}} :
           i \in {i \in DOMAIN rules : WindowHits(ti, rules[i], k[1], k[2])}}

\* the greatest element of a non-empty set of numbers
MaxOf(S) == CHOOSE x \in S : \A y \in S : y <= x

\* C6 (as claimed): a (slot, stream) matched by at least one window entry resolves
\* to the maximum of the matching entries' weights (explicit, or the rank ladder
\* value); only a (slot, stream) matched by no entry keeps the baseline 1.0.
C6_MaxOfMatching ==
    (pc = "returned" /\ fin.fn = "weights") =>
        \A k \in DOMAIN fout.w :
            LET m == MatchingWeights(fin.ti, fin.rules, k)
            IN  fout.w[k] = IF m = {} THEN Baseline ELSE MaxOf(m)

\* the run has returned the values of a feasible solution
Solved == pc = "done" /\ result.status \in {"Optimal", "Not Solved"} /\ sol # Unset

\* the assignment s covers slot (day, b): its template, assigned on that day or on
\* an earlier one, has the slot in its coverage
Covers(s, day, b) ==
    \E off \in 0..day :
        /\ s.day_index = day - off
        /\ <<off, b>> \in SeqToSet(template_covers_bucket(
                data.shift_templates[s.shift_template_id],
                TimeIdx.bucket_minutes, buckets_per_day(TimeIdx)))

\* C1: in the assignments of a solved model every (employee, day) occurs at most once.
C1_OneShiftPerDay ==
    Solved =>
        \A a \in result.employee_shifts, b \in result.employee_shifts :
            (a.employee_id = b.employee_id /\ a.day_index = b.day_index) => a = b

\* an employee with two eligible templates is assigned on both days
C1_Witness ==
    /\ Solved
    /\ \E a \in result.employee_shifts, b \in result.employee_shifts :
          /\ a.employee_id = "e1" /\ b.employee_id = "e1"
          /\ a.day_index = 0 /\ b.day_index = 1
          /\ a.shift_template_id # b.shift_template_id

\* C2: every row of the coverage table of a solved model has
\* allocated + understaff >= required and allocated <= required.
C2_CoverageRows ==
    Solved =>
        \A r \in result.coverage :
            /\ PerAgent * r.allocated + r.understaff >= PerAgent * r.required
            /\ r.allocated <= r.required

\* a row with nothing required and nobody allocated although an employee with the
\* skill is on shift in the slot, beside a row that is partly covered
C2_Witness ==
    /\ Solved
    /\ \E r \in result.coverage :
          /\ r.required = 0 /\ r.allocated = 0
          /\ \E s \in result.employee_shifts :
                /\ Covers(s, r.day_index, r.bucket_index)
                /\ r.skill_group_id \in skills(s.employee_id)
    /\ \E r \in result.coverage : r.allocated = 1 /\ r.understaff = PerAgent /\ r.required = 2

\* C3: every allocation of a solved model is to a skill group the employee holds,
\* in a slot covered by one of the employee's assignments.
C3_AllocationWithinWork ==
    Solved =>
        \A a \in result.employee_allocation :
            /\ a.skill_group_id \in skills(a.employee_id)
            /\ \E s \in result.employee_shifts :
                  /\ s.employee_id = a.employee_id
                  /\ Covers(s, a.day_index, a.bucket_index)

\* an allocation in the first bucket of day 1 by an employee whose only assignment
\* is the night shift of day 0
C3_Witness ==
    /\ Solved
    /\ \E a \in result.employee_allocation :
          /\ a.day_index = 1 /\ a.bucket_index = 0
          /\ \A s \in result.employee_shifts :
                s.employee_id = a.employee_id =>
                    (s.day_index = 0 /\ s.shift_template_id = "N")
    /\ \E e \in Employees :
          /\ \A a \in result.employee_allocation : a.employee_id # e
          /\ \A s \in result.employee_shifts : s.employee_id # e

\* C4 (as claimed): in a solved model an employee is covered by at most one
\* assignment in any slot (work <= 1), and so is allocated to at most one skill
\* group in any slot.
C4_WorkAtMostOne ==
    Solved =>
        /\ \A e \in Employees, sl \in iter_day_buckets(TimeIdx) :
              Cardinality({s \in result.employee_shifts :
                              s.employee_id = e /\ Covers(s, sl[1], sl[2])}) <= 1
        /\ \A a \in result.employee_allocation, b \in result.employee_allocation :
              (/\ a.employee_id = b.employee_id
               /\ a.day_index = b.day_index
               /\ a.bucket_index = b.bucket_index) => a.skill_group_id = b.skill_group_id

\* C8 (as claimed): counting the allocation entries by (day, bucket, skill group)
\* gives the allocated field of every coverage row, and every allocation entry
\* belongs to a coverage row.
C8_AllocationRoundTrip ==
    pc = "done" =>
        /\ \A r \in result.coverage :
              r.allocated = Cardinality({a \in result.employee_allocation :
                                            /\ a.day_index = r.day_index
                                            /\ a.bucket_index = r.bucket_index
                                            /\ a.skill_group_id = r.skill_group_id})
        /\ \A a \in result.employee_allocation :
              \E r \in result.coverage :
                  /\ a.day_index = r.day_index
                  /\ a.bucket_index = r.bucket_index
                  /\ a.skill_group_id = r.skill_group_id

\* the datetime lies exactly on a bucket boundary of the grid
OnBoundary(g, dt) ==
    (3600 * dt.hour + 60 * dt.minute + dt.second) % (60 * g.bucket_minutes) = 0

\* C9 (as claimed): a forecast row is accepted only if its timestamp, seconds
\* included, lies exactly on a bucket boundary; an in-horizon row off a boundary
\* ends the run with the not-aligned error and adds nothing to demand.
C9_AcceptedOnBoundary ==
    /\ \A i \in 1..(idx - 1) : OnBoundary(TimeIdx, data.forecast[i].timestamp_local)
    /\ (pc = "failed" /\ err = "not aligned") =>
          ~OnBoundary(TimeIdx, data.forecast[idx].timestamp_local)

\* rows i < j of fc carry one skill group with two different streams
StreamConflict(fc, i, j) ==
    /\ i < j
    /\ fc[i].skill_group_id = fc[j].skill_group_id
    /\ <<fc[i].direction, fc[i].channel>> # <<fc[j].direction, fc[j].channel>>

HasConflict(fc) == \E i \in DOMAIN fc, j \in DOMAIN fc : StreamConflict(fc, i, j)

\* the loop over the forecast has ended, by an error or after the last row
AggDone == pc = "failed" \/ idx > Len(data.forecast)

\* the timestamp of row r resolves to a slot
TimeOk(r) == day_bucket_from_dt(TimeIdx, r.timestamp_local).err = None

\* in a run that passed aggregation every skill group of the forecast is mapped
\* to the one stream all its rows carry
OneStreamPerGroup ==
    (AggDone /\ pc # "failed") =>
        /\ DOMAIN sg_stream = {data.forecast[i].skill_group_id : i \in DOMAIN data.forecast}
        /\ \A i \in DOMAIN data.forecast :
              sg_stream[data.forecast[i].skill_group_id] =
                  <<data.forecast[i].direction, data.forecast[i].channel>>

\* C11 (as claimed): whenever two rows carry one skill group with different
\* streams, aggregation fails with the stream-conflict error, whatever the order
\* and position of the rows; a run that passes maps each group to one stream.
C11_ConflictAlwaysReported ==
    /\ (AggDone /\ HasConflict(data.forecast)) => (pc = "failed" /\ err = "multiple streams")
    /\ OneStreamPerGroup

\* C11 (amended): whenever two rows carry one skill group with different streams,
\* aggregation fails; it fails with the stream-conflict error when the timestamps
\* of all rows up to the second row of a conflicting pair resolve to a slot, and
\* otherwise with the timestamp error of the first row that does not resolve,
\* which is raised before the stream check of line 74.  A run that passes maps
\* each skill group to one stream.
C11_ConflictReported ==
    /\ (AggDone /\ HasConflict(data.forecast)) =>
          /\ pc = "failed"
          /\ \A j \in DOMAIN data.forecast :
                (/\ \E i \in DOMAIN data.forecast : StreamConflict(data.forecast, i, j)
                 /\ \A k \in 1..j : TimeOk(data.forecast[k]))
                    => err = "multiple streams"
          /\ (\E k \in 1..idx : ~TimeOk(data.forecast[k])) =>
                (err \in {"out of horizon", "not aligned"} /\ ~TimeOk(data.forecast[idx]))
    /\ (pc = "failed" /\ err = "multiple streams") =>
          \E i \in DOMAIN data.forecast : StreamConflict(data.forecast, i, idx)
    /\ OneStreamPerGroup

\* the first and the third row conflict, a row of another group between them, and
\* the run fails on the third row
C11_Witness ==
    /\ pc = "failed" /\ err = "multiple streams" /\ idx = 3
    /\ StreamConflict(data.forecast, 1, 3)
    /\ data.forecast[2].skill_group_id # data.forecast[1].skill_group_id
    /\ <<data.forecast[1].direction, data.forecast[1].channel>> = Outbound

\* the rows of fc at the indices in S, in their order
Pick(fc, S) ==
    LET F[i \in 0..Len(fc)] ==
            IF i = 0 THEN <<>>
            ELSE IF i \in S THEN Append(F[i - 1], fc[i]) ELSE F[i - 1]
    IN  F[Len(fc)]

\* the key-wise sum of two demand tables
MergeSum(a, b) == [k \in DOMAIN a \cup DOMAIN b |-> Get(a, k, 0) + Get(b, k, 0)]

\* C13: after a forecast has been aggregated, demand holds for every key the sum
\* of the agents of the rows landing on it, the aggregation of every permutation
\* of the rows gives the same table, and so does the key-wise sum of the
\* aggregations of the two parts of every split of the rows.
C13_AdditiveReduction ==
    (AggDone /\ pc # "failed") =>
        LET fc == data.forecast
            keys == {KeyOf(TimeIdx, fc[i]) : i \in DOMAIN fc}
        IN  /\ DOMAIN demand = keys
            /\ \A k \in keys :
                  LET I == {i \in DOMAIN fc : KeyOf(TimeIdx, fc[i]) = k}
                  IN  demand[k] = SumF([i \in I |-> fc[i].agents], I)
            /\ \A p \in Perms(DOMAIN fc) :
                  AggregateFrom(TimeIdx, [i \in DOMAIN fc |-> fc[p[i]]], 1, <<>>) = demand
            /\ \A S \in SUBSET (DOMAIN fc) :
                  MergeSum(AggregateFrom(TimeIdx, Pick(fc, S), 1, <<>>),
                           AggregateFrom(TimeIdx, Pick(fc, (DOMAIN fc) \ S), 1, <<>>)) = demand

\* three rows were aggregated: counts 1 and 2 on one key, in that order, and a
\* row on another key
C13_Witness ==
    /\ AggDone /\ pc # "failed" /\ Len(data.forecast) = 3
    /\ data.forecast[1].agents = 1 /\ data.forecast[3].agents = 2
    /\ KeyOf(TimeIdx, data.forecast[1]) = KeyOf(TimeIdx, data.forecast[3])
    /\ KeyOf(TimeIdx, data.forecast[2]) # KeyOf(TimeIdx, data.forecast[1])
    /\ demand[KeyOf(TimeIdx, data.forecast[1])] = 3

\* row i of fc is invalid: outside the horizon, off the bucket boundary (seconds
\* included), or of a second stream for the skill group of an earlier row
InvalidRow(ti, fc, i) ==
    \/ fc[i].timestamp_local.date < ti.start_date
    \/ fc[i].timestamp_local.date >= ti.start_date + ti.days
    \/ ~OnBoundary(ti, fc[i].timestamp_local)
    \/ \E h \in 1..(i - 1) : StreamConflict(fc, h, i)

\* the model handed to the solver has all its variables, constraints and objective
ModelComplete ==
    /\ prob.s = SKeys /\ prob.z = ZKeys /\ prob.u = UKeys
    /\ prob.constraints = Families
    /\ DOMAIN prob.objective = UKeys

\* C12 (as claimed): with an invalid forecast row at any position the run never
\* gets to the solver and ends in an error without result collections; the
\* solver has run exactly when the build is past it, on the complete model.
C12_AbortBeforeSolve ==
    /\ (\E i \in DOMAIN data.forecast : InvalidRow(TimeIdx, data.forecast, i)) =>
          /\ pc \in {"aggregate", "failed"}
          /\ status = None /\ result = Idle
          /\ idx > Len(data.forecast) => pc = "failed"
    /\ pc = "failed" => (status = None /\ sol = Idle /\ result = Idle)
    /\ (status # None) <=> (pc \in {"extract", "done"})
    /\ status # None => ModelComplete

\* the minutes of the templates assigned to employee e on the days in block
AssignedMinutes(e, block) ==
    LET S == {s \in result.employee_shifts : s.employee_id = e /\ s.day_index \in block}
    IN  SumF([s \in S |-> data.shift_templates[s.shift_template_id].duration_minutes], S)

\* C14: in the assignments of a solved model, for every employee and every block
\* of days [7w, min(7w + 7, days)), the last and shorter one included, the hours
\* of the assigned templates lie within hours_per_week of the employee's group.
C14_WeeklyHours ==
    Solved =>
        \A e \in Employees, w \in 0..((TimeIdx.days + 6) \div 7 - 1) :
            LET block == {d \in 0..(TimeIdx.days - 1) : 7 * w <= d /\ d < 7 * w + 7}
                hw == data.employment_groups[data.employees[e].employment_group_id].hours_per_week
            IN  /\ AssignedMinutes(e, block) >= 60 * hw.min
                /\ AssignedMinutes(e, block) <= 60 * hw.max

\* a horizon of a full block and a shorter last one: the employee works twice in
\* the full block and, forced by the weekly minimum, on the last day
C14_Witness ==
    /\ Solved
    /\ TimeIdx.days > 7 /\ TimeIdx.days < 14
    /\ data.employment_groups["wk"].hours_per_week.min = 12
    /\ AssignedMinutes("e1", 0..6) = 1440
    /\ AssignedMinutes("e1", 7..(TimeIdx.days - 1)) = 720

\* the ISO calendar week of a date: ordinal 1 is a Monday
IsoWeek(ordinal) == (ordinal - 1) \div 7

\* days d1 and d2 of the horizon lie in one block of the weekly-hours constraint
SameBlock(d1, d2) == \E w \in DOMAIN fout.blocks : d1 \in fout.blocks[w] /\ d2 \in fout.blocks[w]

\* C15 (as claimed): for every start_date, two days of the horizon lie in one
\* weekly block iff they lie in one ISO calendar week.
C15_IsoWeekAligned ==
    (pc = "returned" /\ fin.fn = "weeks") =>
        \A d1 \in 0..(fin.ti.days - 1), d2 \in 0..(fin.ti.days - 1) :
            SameBlock(d1, d2) <=>
                IsoWeek(fin.ti.start_date + d1) = IsoWeek(fin.ti.start_date + d2)

\* C15 (amended): the weekly blocks are aligned to start_date: every day of the
\* horizon lies in exactly one block, block w holds the days whose week_of_day is
\* w, two days lie in one block iff their day indices have the same quotient by
\* 7; the blocks are the ISO calendar weeks when start_date is a Monday.
C15_StartDateAligned ==
    (pc = "returned" /\ fin.fn = "weeks") =>
        LET days == 0..(fin.ti.days - 1)
        IN  /\ \A d \in days : Cardinality({w \in DOMAIN fout.blocks : d \in fout.blocks[w]}) = 1
            /\ \A w \in DOMAIN fout.blocks :
                  fout.blocks[w] = {d \in days : fout.week_of[d] = w}
            /\ \A d1 \in days, d2 \in days :
                  /\ SameBlock(d1, d2) <=> (d1 \div 7 = d2 \div 7)
                  /\ weekday(fin.ti.start_date) = 0 =>
                        (SameBlock(d1, d2) <=>
                            IsoWeek(fin.ti.start_date + d1) = IsoWeek(fin.ti.start_date + d2))

\* a horizon that starts on a Wednesday: its first block ends on a Tuesday and
\* holds days of two ISO weeks
C15_Witness ==
    /\ pc = "returned" /\ fin.fn = "weeks"
    /\ weekday(fin.ti.start_date) = 2 /\ fin.ti.days > 7
    /\ SameBlock(0, 6)
    /\ IsoWeek(fin.ti.start_date) # IsoWeek(fin.ti.start_date + 6)
    /\ ~SameBlock(6, 7)

\* capacity suffices: some valuation of the assign and allocation variables that
\* satisfies the constraints allocates the required count in every slot to every
\* skill group
CapacitySuffices ==
    \E sv \in SChoices :
        \A sl \in iter_day_buckets(TimeIdx) :
            \E c \in ZSlotChoices(sv, sl[1], sl[2]) :
                \A sg \in data.skill_groups : alloc_sum(c, sg) >= req(sl[1], sl[2], sg)

\* C16: in the result of a run solved to optimality, understaff is 0 in every
\* coverage row whose required count is 0, the understaff list holds only rows
\* with positive required, and if capacity suffices there is no understaff at all.
C16_OptimalUnderstaff ==
    (pc = "done" /\ result.status = "Optimal") =>
        /\ \A r \in result.coverage : r.required = 0 => r.understaff = 0
        /\ \A r \in result.understaff : r.required > 0 /\ r.understaff > 0
        /\ (\E r \in result.coverage : r.understaff > 0) => ~CapacitySuffices

\* two agents are required in one slot, one employee can work it: the understaff
\* list holds that slot alone, while rows with nothing required have an employee
\* on shift
C16_Witness ==
    /\ pc = "done" /\ result.status = "Optimal"
    /\ \E r \in result.understaff :
          /\ r.required = 2 /\ r.understaff = PerAgent
          /\ result.understaff = {r}
    /\ \E r \in result.coverage, s \in result.employee_shifts :
          /\ r.required = 0 /\ r.understaff = 0
          /\ Covers(s, r.day_index, r.bucket_index)
          /\ r.skill_group_id \in skills(s.employee_id)

\* the templates of the payload given by a pattern alone
PatternOnly == {tid \in DOMAIN data.shift_templates :
                   /\ "bucket_work_pattern" \in DOMAIN data.shift_templates[tid]
                   /\ "duration_minutes" \notin DOMAIN data.shift_templates[tid]}

\* the errors of the forecast loop
ForecastErrors == {"out of horizon", "not aligned", "bucket_idx out of range", "multiple streams"}

\* C17 (as claimed): with a template given by its pattern alone the run does not
\* abort in model building: past the precomputation cov holds the flagged
\* offsets of the pattern, counted from the start bucket, and the only errors
\* are those of the forecast.
C17_PatternTemplateAccepted ==
    PatternOnly # {} =>
        /\ pc = "failed" => err \in ForecastErrors
        /\ pc \in {"build", "solve", "extract", "done"} =>
              \A tid \in PatternOnly :
                  LET t == data.shift_templates[tid]
                      start == hhmm_to_bucket(t.start_time_local, TimeIdx.bucket_minutes)
                      bpd == buckets_per_day(TimeIdx)
                  IN  {<<c[2], c[3]>> : c \in {c \in cov : c[1] = tid}} =
                          {<<(start + off - 1) \div bpd, (start + off - 1) % bpd>> :
                              off \in {i \in DOMAIN t.bucket_work_pattern :
                                          t.bucket_work_pattern[i] = 1}}

\* template tid lies within the daily hours of employment group g
WithinDailyHours(g, tid) ==
    /\ data.shift_templates[tid].duration_minutes >= 60 * data.employment_groups[g].hours_per_day.min
    /\ data.shift_templates[tid].duration_minutes <= 60 * data.employment_groups[g].hours_per_day.max

\* the employment groups no template is eligible for
NoEligibleGroups ==
    {g \in DOMAIN data.employment_groups :
        \A tid \in DOMAIN data.shift_templates : ~WithinDailyHours(g, tid)}

\* the keys of the returned dict (lines 351-359)
ResultFields == {"status", "objective_value", "total_understaff", "employee_shifts",
                 "employee_allocation", "understaff", "coverage"}

\* C18 (as claimed): with an employment group that has no eligible template the
\* run is not aborted, is not infeasible when the group has no weekly minimum,
\* and what it returns tells the caller of the condition.
C18_NoEligibleSurfaced ==
    (PatternOnly = {} /\ NoEligibleGroups # {}) =>
        /\ pc = "failed" => err \in ForecastErrors
        /\ (/\ pc = "done"
            /\ \A g \in NoEligibleGroups : data.employment_groups[g].hours_per_week.min = 0)
              => result.status # "Infeasible"
        /\ pc = "done" =>
              \/ err = "NoEligibleTemplate"
              \/ (DOMAIN result) \ ResultFields # {}

\* C19: a template is allowed to an employment group iff its duration lies within
\* hours_per_day of the group; the assign variables are those of the (employee,
\* day, template) whose template is allowed to the employee's group; every
\* assignment of the result names the employee's group and a template within
\* its daily hours.
C19_EligibleTemplates ==
    /\ pc \in {"build", "solve", "extract", "done"} =>
          /\ DOMAIN allowed = (DOMAIN data.employment_groups) \X (DOMAIN data.shift_templates)
          /\ \A k \in DOMAIN allowed : allowed[k] <=> WithinDailyHours(k[1], k[2])
    /\ pc \in {"solve", "extract", "done"} =>
          prob.s = {k \in Employees \X (0..(TimeIdx.days - 1)) \X (DOMAIN data.shift_templates) :
                       WithinDailyHours(data.employees[k[1]].employment_group_id, k[3])}
    /\ pc = "done" =>
          \A s \in result.employee_shifts :
              /\ s.employment_group_id = data.employees[s.employee_id].employment_group_id
              /\ WithinDailyHours(s.employment_group_id, s.shift_template_id)

\* both employees are assigned: the part-timer to the 12-hour shift, the only one
\* within its daily hours, the full-timer to the 24-hour shift
C19_Witness ==
    /\ Solved
    /\ ~WithinDailyHours("pt", "N") /\ WithinDailyHours("pt", "M")
    /\ \E s \in result.employee_shifts : s.employee_id = "e2" /\ s.shift_template_id = "M"
    /\ \E s \in result.employee_shifts : s.employee_id = "e1" /\ s.shift_template_id = "N"

\* C20: whatever status the solver reports, build_and_solve raises nothing after
\* the solve and returns the complete dict: the status, the objective value and
\* the total understaff of the reported values, and the four collections.
C20_ResultForEveryStatus ==
    /\ status # None => (pc # "failed" /\ err = None)
    /\ pc = "done" =>
          /\ DOMAIN result = ResultFields
          /\ result.status = status
          /\ status \in {"Optimal", "Not Solved", "Infeasible"}
          /\ result.objective_value =
                SumF([r \in result.coverage |-> r.weight * r.understaff], result.coverage)
          /\ result.total_understaff =
                SumF([r \in result.understaff |-> r.understaff], result.understaff)

\* the solver stopped on its time limit with a feasible valuation that is not
\* optimal: understaff is reported where nothing is required
C20_Witness ==
    /\ pc = "done" /\ result.status = "Not Solved" /\ sol # Unset
    /\ result.objective_value > 0
    /\ \E r \in result.understaff : r.required = 0

\* a coverage row without its allocated field: the fields of an understaff row
AsUnderstaffRow(r) ==
    [day_index |-> r.day_index, bucket_index |-> r.bucket_index,
     skill_group_id |-> r.skill_group_id, direction |-> r.direction,
     channel |-> r.channel, required |-> r.required, understaff |-> r.understaff,
     weight |-> r.weight]

\* the coverage table has exactly one row for every slot and declared skill group
DenseCoverage ==
    /\ {<<r.day_index, r.bucket_index, r.skill_group_id>> : r \in result.coverage} =
          {<<sl[1], sl[2], sg>> : sl \in iter_day_buckets(TimeIdx), sg \in data.skill_groups}
    /\ Cardinality(result.coverage) =
          TimeIdx.days * buckets_per_day(TimeIdx) * Cardinality(data.skill_groups)
    /\ \A r \in result.coverage :
          r.required = Get(demand, <<r.day_index, r.bucket_index, r.skill_group_id>>, 0)

\* C21 (as claimed): the coverage table has exactly one row per slot and declared
\* skill group, the understaff list is the set of those rows whose understaff is
\* positive, and total_understaff is the sum of the listed values.
C21_PositiveRowsListed ==
    pc = "done" =>
        /\ DenseCoverage
        /\ result.understaff =
              {AsUnderstaffRow(r) : r \in {r \in result.coverage : r.understaff > 0}}
        /\ result.total_understaff =
              SumF([r \in result.understaff |-> r.understaff], result.understaff)

\* C21 (amended): the coverage table has exactly one row per slot and declared
\* skill group, the understaff list is the set of those rows whose understaff
\* exceeds the threshold 1e-6, and total_understaff is the sum of the listed values.
C21_RowsAboveThresholdListed ==
    pc = "done" =>
        /\ DenseCoverage
        /\ result.understaff =
              {AsUnderstaffRow(r) : r \in {r \in result.coverage : r.understaff > Threshold}}
        /\ result.total_understaff =
              SumF([r \in result.understaff |-> r.understaff], result.understaff)

\* skill group B has no demand anywhere and has its rows; one row is listed, and
\* a row with a slack of one threshold is in the table and not in the list
C21_Witness ==
    /\ pc = "done" /\ sol # Unset
    /\ \A k \in DOMAIN demand : k[3] # "B"
    /\ \E r \in result.coverage : r.skill_group_id = "B" /\ r.required = 0
    /\ \E r \in result.coverage : r.required > 0 /\ AsUnderstaffRow(r) \in result.understaff
    /\ \E r \in result.coverage :
          /\ r.understaff = Threshold
          /\ \A x \in result.understaff :
                <<x.day_index, x.bucket_index, x.skill_group_id>> #
                    <<r.day_index, r.bucket_index, r.skill_group_id>>

\* the (day_offset, bucket_in_day) pairs of template tid
CoverageOf(tid) ==
    SeqToSet(template_covers_bucket(data.shift_templates[tid], TimeIdx.bucket_minutes,
                                    buckets_per_day(TimeIdx)))

\* C22 (as claimed): the work expression of (employee, day, bucket) sums the
\* assign variables of the employee for (day - k, t) over every template t and
\* every day offset k >= 0 with day - k >= 0 and (k, bucket) in the coverage of
\* t, whatever day offsets occur in the coverage.
C22_WorkSumsCoverage ==
    pc \in {"solve", "extract", "done"} =>
        \A e \in Employees, sl \in iter_day_buckets(TimeIdx) :
            WorkTerms(prob.s, e, sl[1], sl[2]) =
                {k \in prob.s :
                    /\ k[1] = e
                    /\ k[2] <= sl[1]
                    /\ <<sl[1] - k[2], sl[2]>> \in CoverageOf(k[3])}

\* the weights after the first n windows of the rule list of the call
WeightsAfter(n) ==
    ApplyWindows(fin.ti, InitialWeights(fin.ti, fin.streams \cup RuleStreams(fin.rules)),
                 SubSeq(fin.rules, 1, n), 1)

\* key k = (day, bucket, stream) is one the claim lets window w change
MayChange(ti, w, k) ==
    /\ w.applies_to_days = {} \/ DowNames[weekday(ti.start_date + k[1]) + 1] \in w.applies_to_days
    /\ hhmm_to_bucket(w.start_time_local, ti.bucket_minutes) <= k[2]
    /\ k[2] < hhmm_to_bucket(w.end_time_local, ti.bucket_minutes)
    /\ k[2] \in 0..(buckets_per_day(ti) - 1)
    /\ \E i \in DOMAIN w.priorities : <<w.priorities[i].direction, w.priorities[i].channel>> = k[3]

\* C23: a priority window changes the weight of (day, bucket, stream) only if the
\* weekday of the day is in applies_to_days (an empty list matches every day),
\* the bucket is in [start_bucket, end_bucket) clipped to the day, and the stream
\* is one the window lists; every other key keeps its weight, and the table has
\* an entry for every slot and every known stream, before and after each window.
C23_WindowFrame ==
    (pc = "returned" /\ fin.fn = "weights") =>
        /\ fout.w = WeightsAfter(Len(fin.rules))
        /\ \A n \in 0..Len(fin.rules) :
              DOMAIN WeightsAfter(n) =
                 {<<sl[1], sl[2], st>> : sl \in iter_day_buckets(fin.ti),
                                        st \in fin.streams \cup RuleStreams(fin.rules)}
        /\ \A n \in 1..Len(fin.rules) :
              \A k \in DOMAIN WeightsAfter(n) :
                 WeightsAfter(n)[k] # WeightsAfter(n - 1)[k] => MayChange(fin.ti, fin.rules[n], k)

\* a window for Tuesdays that ends at 24:00 raises the Tuesday weights of its
\* stream and leaves Monday alone, and a window ending at 36:00 is clipped
C23_Witness ==
    /\ pc = "returned" /\ fin.fn = "weights"
    /\ Len(fin.rules) = 2
    /\ fin.rules[1].applies_to_days = {"tue"}
    /\ fin.rules[2].end_time_local = <<36, 0>>
    /\ \E st \in WindowStreams(fin.rules[1]) :
          /\ fout.w[<<1, 0, st>>] > Baseline
          /\ fout.w[<<0, 0, st>>] = Baseline
          /\ st \notin WindowStreams(fin.rules[2])
    /\ \E st \in WindowStreams(fin.rules[2]) : fout.w[<<0, 1, st>>] > Baseline

C26_UnderstaffIsShortfall ==
    (pc = "done" /\ result.status = "Optimal") =>
        \A r \in result.coverage :
            r.understaff = PerAgent * (r.required - r.allocated)

\* an optimal run with a slot partly covered, a slot fully covered, and a slot
\* with nothing required where an employee holding the skill is on shift
C26_Witness ==
    /\ pc = "done" /\ result.status = "Optimal"
    /\ \E r \in result.coverage : r.required = 2 /\ r.allocated = 1 /\ r.understaff = PerAgent
    /\ \E r \in result.coverage : r.required = 1 /\ r.allocated = 1 /\ r.understaff = 0
    /\ \E r \in result.coverage, sh \in result.employee_shifts :
          /\ r.required = 0 /\ r.allocated = 0 /\ r.understaff = 0
          /\ Covers(sh, r.day_index, r.bucket_index)
          /\ r.skill_group_id \in skills(sh.employee_id)

\* the minutes charged for assign variable k = (employee, day, template) in the
\* weekly hours, lines 204-207
ChargedMinutes(k) == data.shift_templates[k[3]].duration_minutes

\* the in-horizon slots whose work expression has the assign variable k
WorkSlots(k) ==
    {sl \in iter_day_buckets(TimeIdx) : k \in WorkTerms(prob.s, k[1], sl[1], sl[2])}

\* the time k contributes to work, in minutes
WorkedMinutes(k) == Cardinality(WorkSlots(k)) * TimeIdx.bucket_minutes

\* the shift of k is a number of whole buckets and every slot of its coverage is
\* within the horizon, on the day of the assignment or the next
WholeAndWithin(k) ==
    /\ ChargedMinutes(k) % TimeIdx.bucket_minutes = 0
    /\ \A c \in CoverageOf(k[3]) : c[1] <= 1 /\ k[2] + c[1] < TimeIdx.days

\* C27 (as claimed): the hours charged for an assignment equal the time it
\* contributes to work, for every template and day.
C27_ChargeEqualsWork ==
    pc \in {"solve", "extract", "done"} =>
        \A k \in prob.s : ChargedMinutes(k) = WorkedMinutes(k)

\* C27 (amended): the time an assignment of a duration-based template contributes
\* to work is never more than the hours charged for it, and equals them exactly
\* when the duration is a number of whole buckets and the whole coverage lies
\* within the horizon, on the day of the assignment or the next.
C27_ChargeAtLeastWork ==
    pc \in {"solve", "extract", "done"} =>
        \A k \in prob.s :
            "bucket_work_pattern" \notin DOMAIN data.shift_templates[k[3]] =>
                /\ WorkedMinutes(k) <= ChargedMinutes(k)
                /\ WorkedMinutes(k) = ChargedMinutes(k) <=> WholeAndWithin(k)

\* a returned schedule has the night shift on the last day, charged 24 hours for
\* the one 12-hour slot it has in the horizon, and a morning shift charged what
\* it contributes
C27_Witness ==
    /\ pc = "done" /\ sol # Unset
    /\ \E k \in prob.s :
          /\ sol.s[k] = 1 /\ k[2] = TimeIdx.days - 1
          /\ ChargedMinutes(k) = 1440 /\ WorkedMinutes(k) = 720
    /\ \E k \in prob.s :
          /\ sol.s[k] = 1 /\ WholeAndWithin(k)
          /\ ChargedMinutes(k) = 720 /\ WorkedMinutes(k) = 720

\* C28 (as claimed): no accepted forecast demand is dropped: the required of the
\* coverage rows add up to the agents of the forecast rows, and every key of
\* demand has an understaff variable, a coverage constraint and a coverage row,
\* also when its skill group is not one of skill_groups.
C28_NoDemandDropped ==
    /\ pc \in {"solve", "extract", "done"} => \A k \in DOMAIN demand : k \in prob.u
    /\ pc = "done" =>
          /\ SumF([r \in result.coverage |-> r.required], result.coverage) =
                SumF([i \in DOMAIN data.forecast |-> data.forecast[i].agents],
                     DOMAIN data.forecast)
          /\ \A k \in DOMAIN demand :
                \E r \in result.coverage :
                    /\ <<r.day_index, r.bucket_index, r.skill_group_id>> = k
                    /\ r.required = demand[k]

\* the minutes of the longest template eligible for group g, 0 when there is none
LongestEligible(g) ==
    LET ds == {data.shift_templates[tid].duration_minutes :
                  tid \in {t \in DOMAIN data.shift_templates : WithinDailyHours(g, t)}}
    IN  IF ds = {} THEN 0 ELSE MaxOf(ds)

\* the horizon ends in a partial block and some employee's weekly minimum is more
\* than one longest eligible shift on each day of that block
MinOutOfReach ==
    /\ TimeIdx.days % 7 # 0
    /\ \E e \in Employees :
          LET g == data.employees[e].employment_group_id
          IN  60 * data.employment_groups[g].hours_per_week.min >
                 (TimeIdx.days % 7) * LongestEligible(g)

\* C29: the weekly minimum is applied unscaled to the final partial block: when
\* the days are not a multiple of 7 and hours_per_week.min is more than can be
\* assigned in the last block, the model has no feasible solution, whatever the
\* demand.
C29_PartialBlockInfeasible ==
    (pc \in {"solve", "extract", "done"} /\ MinOutOfReach) =>
        /\ pc = "solve" => Solutions = {}
        /\ pc # "solve" => sol = Unset /\ status \in {"Infeasible", "Not Solved"}
        /\ pc = "done" => result.employee_shifts = {} /\ result.status = status

\* eight days, a 12-hour shift and a weekly minimum of 36 hours: the first block
\* of seven days can reach it, the last block of one day cannot
C29_Witness ==
    /\ pc = "done" /\ status = "Infeasible"
    /\ TimeIdx.days = LongHorizon
    /\ MinOutOfReach
    /\ \A e \in Employees :
          LET g == data.employees[e].employment_group_id
          IN  /\ 60 * data.employment_groups[g].hours_per_week.min <= 7 * LongestEligible(g)
              /\ LongestEligible(g) > 0

\* C30 (as claimed): a plotly_relayout event by which the user changes the
\* x-range of a figure is propagated to every other figure, once each, and the
\* plotly_relayout events of the relayout calls so made are never propagated,
\* whatever the order of the events and the settling of the promises.
C30_PropagatedOnceNoEcho ==
    pc = "page" =>
        \A i \in DOMAIN log :
            /\ log[i].kind = "user" =>
                  /\ log[i].propagated
                  /\ log[i].targets = Figs \ {log[i].src}
                  /\ \A id \in log[i].targets :
                        Cardinality({r \in DOMAIN relayouts :
                                        relayouts[r].call = i /\ relayouts[r].gd = id}) <= 1
            /\ log[i].kind = "relayout" => ~log[i].propagated

====
